---- MODULE Spec2Model ----
(***************************************************************************)
(* State-machine model of fireball.storage.json_store.JsonStorageManager:  *)
(* the two-partition job-id queue (to_scrape / scraped) mirrored in        *)
(* job_ids.json, the append-only detail log job_info.jsonl, and the        *)
(* timestamped backups with their retention.                               *)
(*                                                                         *)
(* The datetime fields of JobIdEntry / JobSearchMetadata (added_at,        *)
(* last_updated, discovered_at) are not part of the state: the properties  *)
(* checked here compare queue states "timestamps aside".                   *)
(***************************************************************************)
EXTENDS Integers, Sequences, FiniteSets, TLC

VARIABLES
    to_scrape,        \* self.job_ids_state.to_scrape  (list of JobIdEntry)
    scraped,          \* self.job_ids_state.scraped    (list of JobIdEntry)
    job_ids_file,     \* content of <storage_dir>/job_ids.json
    job_info_file,    \* lines of <storage_dir>/job_info.jsonl
    backup_root,      \* the backup_* directories under the backup directory
    clock,            \* local wall clock <<day, second of the day>>
    lastOp,           \* the last call made on the manager, its arguments
                      \* (of add_job_ids: set(job_ids)), its outcome and the
                      \* state it was made in
    taken,            \* the backup() calls that returned: how many (n) and
                      \* the max_backups arguments they were given (caps)
    held,             \* what the caller keeps of the last backup() that
                      \* returned: the returned path and the state S it was
                      \* taken in
    pc,               \* where the manager's process is: "idle" between calls,
                      \* "truncated" inside _save_job_ids after open(..., 'w'),
                      \* "written" in add_job_info before the log is
                      \* appended to, "down" once the process has terminated
    view,             \* what the caller keeps of the last get_jobs_to_scrape
                      \* or get_scraped_jobs: which list object it was handed
                      \* (list) and what the list held at the call (returned)
    collect,          \* LinkedInJobSearch._collect_job_ids: its arguments, its
                      \* locals and what it has observed
    batch,            \* Fireball.scrape_pending_job_info: its locals and what
                      \* it has attempted
    peer              \* a second JsonStorageManager over the same storage
                      \* directory: its job_ids_state

vars == <<to_scrape, scraped, job_ids_file, job_info_file, backup_root, clock,
          lastOp, taken, held, pc, view, collect, batch, peer>>

\* the state of the manager's callers and of the second manager
callers == <<collect, batch, peer>>

----------------------------------------------------------------------------
(* Bounds of the model *)

MaxQueue == 2       \* longest to_scrape list explored
MaxLog == 2         \* most lines of job_info.jsonl explored
MaxIdsArg == 2      \* longest job_ids argument of add_job_ids
MaxKeep == 2        \* largest max_backups argument
MaxBackupCalls == 3 \* most backup() calls that return, retention on its own
RsBackupCalls == 2  \* most backup() calls that return, explored with restores
BkMaxQueue == 1     \* longest to_scrape list explored together with backups
BkMaxLog == 1       \* most log lines explored together with backups
CrMaxQueue == 2     \* longest to_scrape list explored step by step
CrMaxLog == 2       \* most log lines explored step by step
MaxScrolls == 2     \* largest num_scrolls argument of _collect_job_ids
MaxTotalPages == 2  \* most pages the search reports
MaxPagesArg == 2    \* largest max_pages argument of _collect_job_ids
MaxObserved == 2    \* most identifiers in view at one observation
ScMaxQueue == 3     \* longest to_scrape list given to scrape_pending_job_info
MaxLimit == 3       \* largest limit argument of scrape_pending_job_info

JobIds == {"a", "b"}
Metas == {"M1", "M2"}
Titles == {"T1", "T2"}
Days == {1, 2}      \* the calendar days the clock runs through
Secs == {0, 1}      \* the seconds of a day
Suffixes == {0, 1}  \* the random suffixes drawn

----------------------------------------------------------------------------
(* Helpers *)

Range(s) == {s[i] : i \in 1..Len(s)}

SeqsUpTo(S, n) == UNION {[1..k -> S] : k \in 0..n}

\* the sequences that enumerate the finite set S once each: the orders in
\* which a Python set, or a directory listing, may be iterated
RECURSIVE Orders(_)
Orders(S) ==
    IF S = {} THEN {<<>>}
    ELSE UNION {{<<x>> \o s : s \in Orders(S \ {x})} : x \in S}

\* s enumerates the finite set S once each
IsOrderOf(s, S) == Len(s) = Cardinality(S) /\ Range(s) = S

RemoveAt(s, i) == SubSeq(s, 1, i - 1) \o SubSeq(s, i + 1, Len(s))

----------------------------------------------------------------------------
(* storage/models.py *)

JobIdEntry(job_id, search_metadata) ==
    [job_id |-> job_id, search_metadata |-> search_metadata]

JobInfo(job_id, job_title) == [job_id |-> job_id, job_title |-> job_title]

JobIdsState == [to_scrape |-> <<>>, scraped |-> <<>>]

----------------------------------------------------------------------------
(* json (de)serialisation of the queue file *)

\* JobIdEntry.model_dump() written by json.dump: a JSON object, here the
\* pair <<job_id, search_metadata>>
DumpEntry(e) == <<e.job_id, e.search_metadata>>

\* JobIdEntry(**obj) as pydantic rebuilds it in JobIdsState(**data)
ParseEntry(o) == JobIdEntry(o[1], o[2])

model_dump(ts, sc) ==
    [to_scrape |-> [i \in 1..Len(ts) |-> DumpEntry(ts[i])],
     scraped   |-> [i \in 1..Len(sc) |-> DumpEntry(sc[i])]]

\* _save_job_ids that leaves the scraped list out of the file
save_job_ids_pending_only(ts, sc) == <<model_dump(ts, <<>>)>>

\* _save_job_ids: open(..., 'w') and json.dump: the whole file is rewritten.
\* A file is the sequence of its documents: <<>> is the empty (size 0) file.
save_job_ids(ts, sc) == <<model_dump(ts, sc)>>

\* open(self.job_ids_file, 'w') on its own: the file is cut to size 0 before
\* json.dump writes to it
open_w == <<>>

\* _load_or_create_job_ids: the state loaded from a file
load_or_create_job_ids(file) ==
    IF file = <<>>
    THEN JobIdsState
    ELSE [to_scrape |-> [i \in 1..Len(file[1].to_scrape) |-> ParseEntry(file[1].to_scrape[i])],
          scraped   |-> [i \in 1..Len(file[1].scraped) |-> ParseEntry(file[1].scraped[i])]]

----------------------------------------------------------------------------
(* Reads *)

IdsOf(entries) == {entries[i].job_id : i \in 1..Len(entries)}

PendingIds == IdsOf(to_scrape)
ScrapedIds == IdsOf(scraped)

Count(entries, id) == Cardinality({i \in 1..Len(entries) : entries[i].job_id = id})

None == "None"

\* get_job_search_metadata: first match in to_scrape + scraped
get_job_search_metadata(ts, sc, job_id) ==
    LET all == ts \o sc
        hits == {i \in 1..Len(all) : all[i].job_id = job_id}
    IN  IF hits = {} THEN None
        ELSE all[CHOOSE i \in hits : \A j \in hits : i <= j].search_metadata

\* get_job_info: None unless the id is in scraped; then the first line of the
\* log whose job_id matches
get_job_info(sc, log, job_id) ==
    IF ~(\E i \in 1..Len(sc) : sc[i].job_id = job_id) THEN None
    ELSE LET hits == {i \in 1..Len(log) : log[i].job_id = job_id}
         IN  IF hits = {} THEN None
             ELSE log[CHOOSE i \in hits : \A j \in hits : i <= j]

----------------------------------------------------------------------------
(* Operations of the queue *)

\* the ids add_job_ids queues: set(job_ids) - existing_scraped_ids
new_ids(job_ids, sc) == Range(job_ids) \ IdsOf(sc)

\* the loop of add_job_ids: one new JobIdEntry appended per id of new_ids, in
\* the order in which the set is iterated; to_scrape itself is never searched
append_new(ts, order, search_metadata) ==
    ts \o [i \in 1..Len(order) |-> JobIdEntry(order[i], search_metadata)]

\* add_job_ids that also rewrites the search metadata of the entries of
\* scraped whose id is discovered again
add_job_ids_updates_scraped(job_ids, search_metadata, order) ==
    /\ IsOrderOf(order, new_ids(job_ids, scraped))
    /\ to_scrape' = append_new(to_scrape, order, search_metadata)
    /\ scraped' = [i \in 1..Len(scraped) |->
                       IF scraped[i].job_id \in Range(job_ids)
                       THEN JobIdEntry(scraped[i].job_id, search_metadata)
                       ELSE scraped[i]]
    /\ job_ids_file' = save_job_ids(to_scrape', scraped')
    /\ lastOp' = [op |-> "add_job_ids", job_ids |-> Range(job_ids),
                  search_metadata |-> search_metadata,
                  pre_to_scrape |-> to_scrape, pre_scraped |-> scraped,
                  pre_log |-> job_info_file]
    /\ UNCHANGED <<job_info_file, backup_root, clock, taken, held, pc, view>>

\* add_job_ids(job_ids, search_metadata); order is the order in which the
\* set new_ids is iterated
add_job_ids(job_ids, search_metadata, order) ==
    /\ IsOrderOf(order, new_ids(job_ids, scraped))
    /\ to_scrape' = append_new(to_scrape, order, search_metadata)
    /\ scraped' = scraped
    /\ job_ids_file' = save_job_ids(to_scrape', scraped')
    /\ lastOp' = [op |-> "add_job_ids", job_ids |-> Range(job_ids),
                  search_metadata |-> search_metadata,
                  pre_to_scrape |-> to_scrape, pre_scraped |-> scraped,
                  pre_log |-> job_info_file]
    /\ UNCHANGED <<job_info_file, backup_root, clock, taken, held, pc, view>>

\* index of the first entry of to_scrape with this job_id, 0 when there is none
first_match(ts, job_id) ==
    LET hits == {i \in 1..Len(ts) : ts[i].job_id = job_id}
    IN  IF hits = {} THEN 0 ELSE CHOOSE i \in hits : \A j \in hits : i <= j

\* mark_scraped that pops the entry and never appends it to scraped
mark_scraped_drops(ts, sc, job_id) ==
    LET i == first_match(ts, job_id)
    IN  IF i # 0
        THEN [to_scrape |-> RemoveAt(ts, i), scraped |-> sc]
        ELSE [to_scrape |-> ts, scraped |-> sc]

\* the first part of add_job_info: the first entry of to_scrape with this
\* job_id is popped and appended to scraped; the two lists afterwards
mark_scraped(ts, sc, job_id) ==
    LET i == first_match(ts, job_id)
    IN  IF i # 0
        THEN [to_scrape |-> RemoveAt(ts, i), scraped |-> Append(sc, ts[i])]
        ELSE [to_scrape |-> ts, scraped |-> sc]

\* add_job_info that records an entry in scraped also when to_scrape holds
\* none for the id (an entry without search metadata is made up)
add_job_info_fabricates(job_info) ==
    LET i == first_match(to_scrape, job_info.job_id)
        m == mark_scraped(to_scrape, scraped, job_info.job_id)
    IN  /\ to_scrape' = m.to_scrape
        /\ scraped' = IF i # 0 THEN m.scraped
                      ELSE Append(scraped, JobIdEntry(job_info.job_id, None))
        /\ job_ids_file' = save_job_ids(to_scrape', scraped')
        /\ job_info_file' = Append(job_info_file, job_info)
        /\ lastOp' = [op |-> "add_job_info", job_info |-> job_info,
                      pre_to_scrape |-> to_scrape, pre_scraped |-> scraped,
                      pre_log |-> job_info_file]
        /\ UNCHANGED <<backup_root, clock, taken, held, pc, view>>

\* add_job_info(job_info)
add_job_info(job_info) ==
    LET i == first_match(to_scrape, job_info.job_id)
        m == mark_scraped(to_scrape, scraped, job_info.job_id)
    IN  /\ IF i # 0
           THEN /\ to_scrape' = m.to_scrape
                /\ scraped' = m.scraped
                /\ job_ids_file' = save_job_ids(to_scrape', scraped')
           ELSE UNCHANGED <<to_scrape, scraped, job_ids_file>>
        /\ job_info_file' = Append(job_info_file, job_info)
        /\ lastOp' = [op |-> "add_job_info", job_info |-> job_info,
                      pre_to_scrape |-> to_scrape, pre_scraped |-> scraped,
                      pre_log |-> job_info_file]
        /\ UNCHANGED <<backup_root, clock, taken, held, pc, view>>

----------------------------------------------------------------------------
(* Backups *)

\* the caller holds no backup path
\* no list has been handed out
NoView == [list |-> "none", returned |-> <<>>, contents |-> <<>>]

\* what the list object of a view holds now: the lists handed out are the
\* manager's own objects, a list the manager has let go of holds what it
\* held then
list_now(v) ==
    CASE v.list = "to_scrape" -> to_scrape
      [] v.list = "scraped"   -> scraped
      [] OTHER                -> v.contents

\* self.job_ids_state is replaced by a new object: a list handed out before
\* belongs to the old one
detached(v) ==
    IF v.list \in {"to_scrape", "scraped"}
    THEN [list |-> "detached", returned |-> v.returned, contents |-> list_now(v)]
    ELSE v

\* get_jobs_to_scrape()
get_jobs_to_scrape ==
    /\ view' = [list |-> "to_scrape", returned |-> to_scrape]
    /\ UNCHANGED <<to_scrape, scraped, job_ids_file, job_info_file, backup_root,
                   clock, lastOp, taken, held, pc>>

\* get_scraped_jobs()
get_scraped_jobs ==
    /\ view' = [list |-> "scraped", returned |-> scraped]
    /\ UNCHANGED <<to_scrape, scraped, job_ids_file, job_info_file, backup_root,
                   clock, lastOp, taken, held, pc>>

\* _collect_job_ids has not been called
NotCollecting == [at |-> "none"]

\* scrape_pending_job_info has not been called
NoBatch == [at |-> "none"]

\* no second manager has been constructed
NoPeer == [open |-> FALSE]

NoBackup == [path |-> None]

\* f"backup_{timestamp}_{random_suffix}" with timestamp "%Y%m%d_%H%M%S": the
\* name as its "_"-separated fields <<"backup", date, time of day, suffix>>
backup_name(now, random_suffix) == <<"backup", now[1], now[2], random_suffix>>

\* x.name.split("_")[1], the sort key of _cleanup_old_backups: the second field
sort_key(name) == name[2]

\* the full timestamp embedded in a name: <<date, time of day>>
timestamp_of(name) == <<name[2], name[3]>>

NotEarlier(t, u) == t[1] > u[1] \/ (t[1] = u[1] /\ t[2] >= u[2])

Names(dirs) == {d.name : d \in dirs}

\* sorted(listing, key=sort_key): Python's sort is stable, so directories
\* with equal keys keep the order of the listing
sorted_by_key(listing) ==
    LET n == Len(listing)
        rank(i) == 1 + Cardinality({j \in 1..n :
                        \/ sort_key(listing[j].name) < sort_key(listing[i].name)
                        \/ /\ sort_key(listing[j].name) = sort_key(listing[i].name)
                           /\ j < i})
    IN  [k \in 1..n |-> listing[CHOOSE i \in 1..n : rank(i) = k]]

\* _cleanup_old_backups with the loop test off by one
\* (while len(backup_dirs) > max_backups + 1)
cleanup_keeps_one_more(listing, max_backups) ==
    LET backup_dirs == sorted_by_key(listing)
        excess == IF Len(backup_dirs) > max_backups + 1
                  THEN Len(backup_dirs) - (max_backups + 1) ELSE 0
    IN  Range(SubSeq(backup_dirs, excess + 1, Len(backup_dirs)))

\* _cleanup_old_backups: listing is backup_dir.iterdir() filtered to the
\* backup_* directories; the directories that remain
cleanup_old_backups(listing, max_backups) ==
    LET backup_dirs == sorted_by_key(listing)
        excess == IF Len(backup_dirs) > max_backups
                  THEN Len(backup_dirs) - max_backups ELSE 0
    IN  Range(SubSeq(backup_dirs, excess + 1, Len(backup_dirs)))

backup_info(now, random_suffix, ts, sc) ==
    [timestamp |-> now, random_suffix |-> random_suffix,
     num_jobs_to_scrape |-> Len(ts), num_jobs_scraped |-> Len(sc),
     total_jobs |-> Len(ts) + Len(sc)]

\* the files backup() puts into the directory it makes, in this order
BackupFiles == {"job_ids.json", "job_info.jsonl", "backup_info.json"}

\* the directory backup() has made once it has written the files of files;
\* a file that is not there has no content (<<>>, for backup_info.json None)
backup_dir_of(name, random_suffix, files) ==
    [name |-> name, files |-> files,
     job_ids  |-> IF "job_ids.json" \in files THEN job_ids_file ELSE <<>>,
     job_info |-> IF "job_info.jsonl" \in files THEN job_info_file ELSE <<>>,
     info |-> IF "backup_info.json" \in files
              THEN backup_info(clock, random_suffix, to_scrape, scraped)
              ELSE None]

\* backup() when the process terminates inside it, after backup_dir.mkdir()
\* and the writing of the files of files
backup_interrupted(random_suffix, files) ==
    LET name == backup_name(clock, random_suffix)
    IN  /\ pc = "idle"
        /\ name \notin Names(backup_root)
        /\ backup_root' = backup_root \cup {backup_dir_of(name, random_suffix, files)}
        /\ pc' = "down"
        /\ lastOp' = [op |-> "backup", ok |-> FALSE, path |-> name, files |-> files]
        /\ UNCHANGED <<to_scrape, scraped, job_ids_file, job_info_file, clock,
                       taken, held, view>>

\* backup(backup_dir, max_backups): random_suffix is the suffix drawn, listing
\* the order in which iterdir() lists the directories
backup(max_backups, random_suffix, listing) ==
    LET name == backup_name(clock, random_suffix)
        dir  == backup_dir_of(name, random_suffix, BackupFiles)
    IN  IF name \in Names(backup_root)
        THEN \* backup_dir.mkdir() raises FileExistsError
             /\ lastOp' = [op |-> "backup", ok |-> FALSE, path |-> name,
                           max_backups |-> max_backups]
             /\ UNCHANGED <<to_scrape, scraped, job_ids_file, job_info_file,
                            backup_root, clock, taken, held, pc, view>>
        ELSE /\ IsOrderOf(listing, backup_root \cup {dir})
             /\ backup_root' = cleanup_old_backups(listing, max_backups)
             /\ lastOp' = [op |-> "backup", ok |-> TRUE, path |-> name,
                           max_backups |-> max_backups,
                           removed |-> Names(backup_root \cup {dir}) \ Names(backup_root')]
             /\ taken' = [n |-> taken.n + 1, caps |-> taken.caps \cup {max_backups}]
             /\ held' = [path |-> name, max_backups |-> max_backups,
                         to_scrape |-> to_scrape, scraped |-> scraped,
                         job_info |-> job_info_file]
             /\ UNCHANGED <<to_scrape, scraped, job_ids_file, job_info_file, clock,
                            pc, view>>

\* restore_from_backup that goes on when the directory is missing: nothing is
\* copied and the state is loaded anew as from an empty file
restore_resets_when_missing(path) ==
    IF path \notin Names(backup_root)
    THEN /\ to_scrape' = JobIdsState.to_scrape
         /\ scraped' = JobIdsState.scraped
         /\ job_ids_file' = save_job_ids(to_scrape', scraped')
         /\ lastOp' = [op |-> "restore", ok |-> FALSE, path |-> path,
                       pre_to_scrape |-> to_scrape, pre_scraped |-> scraped,
                       pre_log |-> job_info_file, pre_file |-> job_ids_file]
         /\ view' = detached(view)
         /\ UNCHANGED <<job_info_file, backup_root, clock, taken, held, pc>>
    ELSE LET dir == CHOOSE d \in backup_root : d.name = path
             loaded == load_or_create_job_ids(dir.job_ids)
         IN  /\ job_ids_file' = dir.job_ids
             /\ job_info_file' = dir.job_info
             /\ to_scrape' = loaded.to_scrape
             /\ scraped' = loaded.scraped
             /\ lastOp' = [op |-> "restore", ok |-> TRUE, path |-> path]
             /\ view' = detached(view)
             /\ UNCHANGED <<backup_root, clock, taken, held, pc>>

\* restore_from_backup(backup_dir)
restore_from_backup(path) ==
    IF path \notin Names(backup_root)
    THEN \* raise ValueError("Backup directory not found")
         /\ lastOp' = [op |-> "restore", ok |-> FALSE, path |-> path,
                       pre_to_scrape |-> to_scrape, pre_scraped |-> scraped,
                       pre_log |-> job_info_file, pre_file |-> job_ids_file]
         /\ UNCHANGED <<to_scrape, scraped, job_ids_file, job_info_file,
                        backup_root, clock, taken, held, pc, view>>
    ELSE LET dir == CHOOSE d \in backup_root : d.name = path
             loaded == load_or_create_job_ids(dir.job_ids)
             failed == [op |-> "restore", ok |-> FALSE, path |-> path,
                        pre_to_scrape |-> to_scrape, pre_scraped |-> scraped,
                        pre_log |-> job_info_file, pre_file |-> job_ids_file]
         IN  IF "job_ids.json" \notin dir.files
             THEN \* the first shutil.copy2 raises FileNotFoundError
                  /\ lastOp' = failed
                  /\ UNCHANGED <<to_scrape, scraped, job_ids_file, job_info_file,
                                 backup_root, clock, taken, held, pc, view>>
             ELSE IF "job_info.jsonl" \notin dir.files
             THEN \* the second shutil.copy2 raises FileNotFoundError
                  /\ job_ids_file' = dir.job_ids
                  /\ lastOp' = failed
                  /\ UNCHANGED <<to_scrape, scraped, job_info_file, backup_root,
                                 clock, taken, held, pc, view>>
             ELSE /\ job_ids_file' = dir.job_ids
                  /\ job_info_file' = dir.job_info
                  /\ to_scrape' = loaded.to_scrape
                  /\ scraped' = loaded.scraped
                  /\ lastOp' = [op |-> "restore", ok |-> TRUE, path |-> path]
                  /\ view' = detached(view)
                  /\ UNCHANGED <<backup_root, clock, taken, held, pc>>

\* get_storage_stats
get_storage_stats(ts, sc, log) ==
    [num_to_scrape |-> Len(ts), num_scraped |-> Len(sc), num_job_info |-> Len(log)]

\* get_scraping_changes with the operands of the subtractions exchanged
changes_before_minus_current(before_stats, ts, sc, log) ==
    LET current_stats == get_storage_stats(ts, sc, log)
    IN  [change_to_scrape |-> before_stats.num_to_scrape - current_stats.num_to_scrape,
         change_scraped   |-> before_stats.num_scraped - current_stats.num_scraped,
         change_job_info  |-> before_stats.num_job_info - current_stats.num_job_info]

\* get_scraping_changes(before_stats) in the state (ts, sc, log)
get_scraping_changes(before_stats, ts, sc, log) ==
    LET current_stats == get_storage_stats(ts, sc, log)
    IN  [change_to_scrape |-> current_stats.num_to_scrape - before_stats.num_to_scrape,
         change_scraped   |-> current_stats.num_scraped - before_stats.num_scraped,
         change_job_info  |-> current_stats.num_job_info - before_stats.num_job_info]

----------------------------------------------------------------------------
(* The queue on its own: add_job_ids and add_job_info in any order *)

Init ==
    /\ to_scrape = JobIdsState.to_scrape
    /\ scraped = JobIdsState.scraped
    /\ job_ids_file = save_job_ids(JobIdsState.to_scrape, JobIdsState.scraped)
    /\ job_info_file = <<>>
    /\ backup_root = {}
    /\ clock = <<1, 0>>
    /\ lastOp = [op |-> "init"]
    /\ taken = [n |-> 0, caps |-> {}]
    /\ held = NoBackup
    /\ pc = "idle"
    /\ view = NoView
    /\ collect = NotCollecting
    /\ batch = NoBatch
    /\ peer = NoPeer

\* a call of add_job_ids with ids of I, at most n of them, while to_scrape
\* stays within q entries
AddJobIdsIn(I, n, q) ==
    \E job_ids \in SeqsUpTo(I, n), md \in Metas :
        /\ Len(to_scrape) + Cardinality(new_ids(job_ids, scraped)) <= q
        /\ \E order \in Orders(new_ids(job_ids, scraped)) :
               add_job_ids(job_ids, md, order)
        /\ UNCHANGED callers

\* a call of add_job_info for an id of I while the log stays within n lines
AddJobInfoIn(I, n) ==
    \E id \in I, t \in Titles :
        /\ Len(job_info_file) < n
        /\ add_job_info(JobInfo(id, t))
        /\ UNCHANGED callers

AddJobIds == AddJobIdsIn(JobIds, MaxIdsArg, MaxQueue)

AddJobInfo == AddJobInfoIn(JobIds, MaxLog)

Next == AddJobIds \/ AddJobInfo

Spec == Init /\ [][Next]_vars

----------------------------------------------------------------------------
(* Backups and restores as calls *)

\* a call of backup with max_backups in K, while fewer than calls calls have
\* returned
BackupIn(K, calls) ==
    \E max_backups \in K, random_suffix \in Suffixes :
        /\ taken.n < calls
        /\ UNCHANGED callers
        /\ LET name == backup_name(clock, random_suffix)
               dir  == backup_dir_of(name, random_suffix, BackupFiles)
           IN  IF name \in Names(backup_root)
               THEN backup(max_backups, random_suffix, <<>>)
               ELSE \E listing \in Orders(backup_root \cup {dir}) :
                        backup(max_backups, random_suffix, listing)

\* a path that names no directory
nonexistent_backup == <<"backup", 0, 0, 0>>

Restore ==
    \E path \in Names(backup_root) \cup {nonexistent_backup}
                \cup (IF held = NoBackup THEN {} ELSE {held.path}) :
        restore_from_backup(path) /\ UNCHANGED callers

\* time passes: the next second, or the first second of the next day
Tick ==
    /\ \/ clock[2] + 1 \in Secs /\ clock' = <<clock[1], clock[2] + 1>>
       \/ clock[1] + 1 \in Days /\ clock' = <<clock[1] + 1, 0>>
    /\ UNCHANGED <<to_scrape, scraped, job_ids_file, job_info_file, backup_root,
                   lastOp, taken, held, pc, view>>
    /\ UNCHANGED callers

BkIds == {"a"}

BkAddJobIds == AddJobIdsIn(BkIds, MaxIdsArg, BkMaxQueue)

BkAddJobInfo == AddJobInfoIn(BkIds, BkMaxLog)

----------------------------------------------------------------------------
(* Retention on its own: backups of a store into one backup directory while
   the clock runs *)

RetBackup == BackupIn(0..MaxKeep, MaxBackupCalls)

NextRetention == RetBackup \/ Tick

SpecRetention == Init /\ [][NextRetention]_vars

----------------------------------------------------------------------------
(* The store with its backups: a single identifier in the queue, backups
   (max_backups >= 1) taken and restored *)

RsBackup == BackupIn(1..MaxKeep, RsBackupCalls)

NextBackup == BkAddJobIds \/ BkAddJobInfo \/ RsBackup \/ Restore \/ Tick

SpecBackup == Init /\ [][NextBackup]_vars

----------------------------------------------------------------------------
(* Every operation of the manager on a short queue, the clock standing still:
   one backup is taken, into an empty backup directory, and restored *)

StAddJobIds == AddJobIdsIn(JobIds, MaxIdsArg, BkMaxQueue)

StAddJobInfo == AddJobInfoIn(JobIds, BkMaxLog)

StBackup == backup_root = {} /\ BackupIn(1..MaxKeep, MaxBackupCalls)

NextStore == StAddJobIds \/ StAddJobInfo \/ StBackup \/ Restore

SpecStore == Init /\ [][NextStore]_vars

----------------------------------------------------------------------------
(* The same without restore_from_backup *)

NextNoRestore == StAddJobIds \/ StAddJobInfo \/ StBackup

SpecNoRestore == Init /\ [][NextNoRestore]_vars

----------------------------------------------------------------------------
(* The queue and a caller that keeps the list a read handed out *)

GetJobsToScrape == get_jobs_to_scrape /\ UNCHANGED callers

GetScrapedJobs == get_scraped_jobs /\ UNCHANGED callers

NextReads == AddJobIds \/ AddJobInfo \/ GetJobsToScrape \/ GetScrapedJobs

SpecReads == Init /\ [][NextReads]_vars

----------------------------------------------------------------------------
(* The queue step by step, with a process that may terminate between two
   steps and a new manager constructed over the same directory afterwards *)

\* add_job_ids up to open(..., 'w') in _save_job_ids
begin_add_job_ids(job_ids, search_metadata, order) ==
    /\ pc = "idle"
    /\ IsOrderOf(order, new_ids(job_ids, scraped))
    /\ to_scrape' = append_new(to_scrape, order, search_metadata)
    /\ scraped' = scraped
    /\ job_ids_file' = open_w
    /\ pc' = "truncated"
    /\ lastOp' = [op |-> "add_job_ids", job_ids |-> Range(job_ids),
                  search_metadata |-> search_metadata,
                  pre_to_scrape |-> to_scrape, pre_scraped |-> scraped,
                  pre_log |-> job_info_file]
    /\ UNCHANGED <<job_info_file, backup_root, clock, taken, held, view>>

\* add_job_info up to open(..., 'w') in _save_job_ids, or, when no entry of
\* to_scrape matches, up to the append to the log
begin_add_job_info(job_info) ==
    LET i == first_match(to_scrape, job_info.job_id)
        m == mark_scraped(to_scrape, scraped, job_info.job_id)
    IN  /\ pc = "idle"
        /\ IF i # 0
           THEN /\ to_scrape' = m.to_scrape
                /\ scraped' = m.scraped
                /\ job_ids_file' = open_w
                /\ pc' = "truncated"
           ELSE /\ pc' = "written"
                /\ UNCHANGED <<to_scrape, scraped, job_ids_file>>
        /\ lastOp' = [op |-> "add_job_info", job_info |-> job_info,
                      pre_to_scrape |-> to_scrape, pre_scraped |-> scraped,
                      pre_log |-> job_info_file]
        /\ UNCHANGED <<job_info_file, backup_root, clock, taken, held, view>>

\* json.dump and the close of the file in _save_job_ids
finish_save_job_ids ==
    /\ pc = "truncated"
    /\ job_ids_file' = save_job_ids(to_scrape, scraped)
    /\ pc' = IF lastOp.op = "add_job_info" THEN "written" ELSE "idle"
    /\ UNCHANGED <<to_scrape, scraped, job_info_file, backup_root, clock, lastOp,
                   taken, held, view>>
    /\ UNCHANGED callers

\* the append to job_info.jsonl that ends add_job_info
append_job_info ==
    /\ pc = "written"
    /\ job_info_file' = Append(job_info_file, lastOp.job_info)
    /\ pc' = "idle"
    /\ UNCHANGED <<to_scrape, scraped, job_ids_file, backup_root, clock, lastOp,
                   taken, held, view>>
    /\ UNCHANGED callers

\* the process terminates; what it held in memory is kept here as the state
\* the interrupted call was producing
Crash ==
    /\ pc # "down"
    /\ pc' = "down"
    /\ UNCHANGED <<to_scrape, scraped, job_ids_file, job_info_file, backup_root,
                   clock, lastOp, taken, held, view>>
    /\ UNCHANGED callers

\* JsonStorageManager(storage_dir) over the directory the process left
Restart ==
    /\ pc = "down"
    /\ LET loaded == load_or_create_job_ids(job_ids_file)
       IN  /\ to_scrape' = loaded.to_scrape
           /\ scraped' = loaded.scraped
           /\ job_ids_file' = IF job_ids_file = <<>>
                              THEN save_job_ids(loaded.to_scrape, loaded.scraped)
                              ELSE job_ids_file
    /\ pc' = "idle"
    /\ lastOp' = [op |-> "init"]
    /\ view' = detached(view)
    /\ UNCHANGED <<job_info_file, backup_root, clock, taken, held>>
    /\ UNCHANGED callers

CrBeginAddJobIds ==
    \E job_ids \in SeqsUpTo(BkIds, MaxIdsArg), md \in Metas :
        /\ Len(to_scrape) + Cardinality(new_ids(job_ids, scraped)) <= CrMaxQueue
        /\ \E order \in Orders(new_ids(job_ids, scraped)) :
               begin_add_job_ids(job_ids, md, order)
        /\ UNCHANGED callers

CrBeginAddJobInfo ==
    \E id \in BkIds, t \in Titles :
        /\ Len(job_info_file) < CrMaxLog
        /\ begin_add_job_info(JobInfo(id, t))
        /\ UNCHANGED callers

NextCrash ==
    \/ CrBeginAddJobIds
    \/ CrBeginAddJobInfo
    \/ finish_save_job_ids
    \/ append_job_info
    \/ Crash
    \/ Restart

SpecCrash == Init /\ [][NextCrash]_vars

----------------------------------------------------------------------------
(* Every operation of the manager on a short queue, with a backup() in which
   the process may terminate and a new manager constructed afterwards *)

\* what backup() has written when the process terminates inside it
WrittenSoFar ==
    {{}, {"job_ids.json"}, {"job_ids.json", "job_info.jsonl"}}

PtAddJobIds == pc = "idle" /\ StAddJobIds

PtAddJobInfo == pc = "idle" /\ StAddJobInfo

PtBackup == pc = "idle" /\ StBackup

PtBackupInterrupted ==
    \E random_suffix \in Suffixes, files \in WrittenSoFar :
        /\ backup_root = {}
        /\ backup_interrupted(random_suffix, files)
        /\ UNCHANGED callers

PtRestore == pc = "idle" /\ Restore

NextPartial ==
    \/ PtAddJobIds
    \/ PtAddJobInfo
    \/ PtBackup
    \/ PtBackupInterrupted
    \/ PtRestore
    \/ Restart

SpecPartial == Init /\ [][NextPartial]_vars

----------------------------------------------------------------------------
(* job_search/linkedin.py: _collect_job_ids, one step per observation and one
   per page change *)

\* an Optional[int] argument: <<>> is None, <<n>> the integer n
Optional(n) == <<n>>

\* job_ids.update(in_view) that forgets what the set held
update_replaces(job_ids, in_view) == Range(in_view)

\* job_ids.update(in_view): in_view is the list new_ids the page evaluates to
update(job_ids, in_view) == job_ids \cup Range(in_view)

\* min(total_pages, max_pages) if max_pages else total_pages
pages_to_process(total_pages, max_pages) ==
    IF max_pages # <<>> /\ max_pages[1] # 0
    THEN (IF total_pages <= max_pages[1] THEN total_pages ELSE max_pages[1])
    ELSE total_pages

\* the test of the while loop: the body is entered (a further page is
\* processed, pages counts them) or the function returns job_ids
while_has_next_page(c) ==
    IF c.has_next_page /\ c.page_num <= c.pages_to_process
    THEN [c EXCEPT !.at = "scroll", !.scroll_count = 0, !.pages = c.pages + 1]
    ELSE [c EXCEPT !.at = "done"]

\* _collect_job_ids(page, num_scrolls, max_pages) up to the first test of the
\* while loop; total_pages is what the page reports
collect_job_ids(num_scrolls, max_pages, total_pages) ==
    /\ collect.at = "none"
    /\ collect' = while_has_next_page(
           [at |-> "start", num_scrolls |-> num_scrolls, max_pages |-> max_pages,
            total_pages |-> total_pages,
            pages_to_process |-> pages_to_process(total_pages, max_pages),
            job_ids |-> {}, page_num |-> 1, has_next_page |-> TRUE,
            scroll_count |-> 0, new_count |-> 0,
            seen |-> {}, before |-> {}, last |-> {}, pages |-> 0,
            observations |-> 0])

\* one pass of the for loop: the list new_ids, here in_view, is observed and
\* merged; seen, before and
\* last record what was observed, apart from job_ids
scroll(in_view) ==
    /\ collect.at = "scroll"
    /\ collect.scroll_count < collect.num_scrolls
    /\ LET job_ids == update(collect.job_ids, in_view)
       IN  collect' = [collect EXCEPT
               !.job_ids = job_ids,
               !.new_count = Cardinality(job_ids) - Cardinality(collect.job_ids),
               !.scroll_count = collect.scroll_count + 1,
               !.before = collect.seen,
               !.last = Range(in_view),
               !.seen = collect.seen \cup Range(in_view),
               !.observations = collect.observations + 1]

\* the end of the loop body: the move to the next page; next_button is what
\* the look for the button gives: "found", "missing" (absent or disabled) or
\* "raises" (the look or the click raises)
next_page(next_button) ==
    /\ collect.at = "scroll"
    /\ collect.scroll_count = collect.num_scrolls
    /\ collect' = while_has_next_page(
           IF collect.page_num < collect.pages_to_process /\ next_button = "found"
           THEN [collect EXCEPT !.page_num = collect.page_num + 1]
           ELSE [collect EXCEPT !.has_next_page = FALSE])

store == <<to_scrape, scraped, job_ids_file, job_info_file, backup_root, clock,
           lastOp, taken, held, pc, view>>

CollectJobIds ==
    \E num_scrolls \in 0..MaxScrolls, total_pages \in 1..MaxTotalPages,
       max_pages \in {<<>>} \cup {Optional(n) : n \in 0..MaxPagesArg} :
        /\ collect_job_ids(num_scrolls, max_pages, total_pages)
        /\ UNCHANGED <<store, batch, peer>>

Scroll ==
    \E in_view \in SeqsUpTo(JobIds, MaxObserved) :
        /\ scroll(in_view)
        /\ UNCHANGED <<store, batch, peer>>

NextPage ==
    \E next_button \in {"found", "missing", "raises"} :
        /\ next_page(next_button)
        /\ UNCHANGED <<store, batch, peer>>

NextCollect == CollectJobIds \/ Scroll \/ NextPage

SpecCollect == Init /\ [][NextCollect]_vars

----------------------------------------------------------------------------
(* interfaces/interface.py: scrape_pending_job_info, one step per pass of its
   for loop *)

\* the list the for loop iterates: the slice to_scrape[:limit] when a limit
\* was given, else the list get_jobs_to_scrape handed out
iterated ==
    IF batch.sliced THEN batch.to_scrape ELSE list_now(view)

\* to_scrape[:limit]
slice(s, limit) == SubSeq(s, 1, IF limit <= Len(s) THEN limit ELSE Len(s))

\* scrape_pending_job_info(limit) up to the for loop; selected and
\* log_at_call record the list the loop was given and the length of the log
scrape_pending_job_info(limit) ==
    LET sliced == limit # <<>> /\ limit[1] # 0
        local  == IF sliced THEN slice(to_scrape, limit[1]) ELSE to_scrape
    IN  /\ batch.at = "none"
        /\ get_jobs_to_scrape
        /\ batch' = [at |-> IF local = <<>> THEN "done" ELSE "loop",
                     limit |-> limit, sliced |-> sliced,
                     to_scrape |-> IF sliced THEN local ELSE <<>>,
                     next |-> 1, processed_jobs |-> <<>>,
                     selected |-> local, log_at_call |-> Len(job_info_file),
                     attempted |-> <<>>, failed |-> <<>>]

\* a pass of the loop in which scrape_job_info returns a JobInfo
scrape_one(job_title) ==
    /\ batch.at = "loop"
    /\ batch.next <= Len(iterated)
    /\ LET job_entry == iterated[batch.next]
           job_info  == JobInfo(job_entry.job_id, job_title)
       IN  /\ add_job_info(job_info)
           /\ batch' = [batch EXCEPT
                  !.next = batch.next + 1,
                  !.processed_jobs = Append(batch.processed_jobs, job_info),
                  !.attempted = Append(batch.attempted, job_entry.job_id)]

\* a pass of the loop in which scrape_job_info returns None, or an exception
\* is raised and caught
scrape_fails ==
    /\ batch.at = "loop"
    /\ batch.next <= Len(iterated)
    /\ LET job_entry == iterated[batch.next]
       IN  batch' = [batch EXCEPT
               !.next = batch.next + 1,
               !.attempted = Append(batch.attempted, job_entry.job_id),
               !.failed = Append(batch.failed, job_entry.job_id)]
    /\ UNCHANGED store

\* the iterator is exhausted: processed_jobs is returned
scrape_returns ==
    /\ batch.at = "loop"
    /\ batch.next > Len(iterated)
    /\ batch' = [batch EXCEPT !.at = "done"]
    /\ UNCHANGED store

ScIds == {"a", "b", "c"}

ScAddJobIds == batch.at = "none" /\ AddJobIdsIn(ScIds, MaxIdsArg, ScMaxQueue)

ScrapePending ==
    \E limit \in {<<>>} \cup {Optional(n) : n \in 0..MaxLimit} :
        /\ scrape_pending_job_info(limit)
        /\ UNCHANGED <<collect, peer>>

ScrapeOne ==
    \E job_title \in Titles : scrape_one(job_title) /\ UNCHANGED <<collect, peer>>

ScrapeFails == scrape_fails /\ UNCHANGED <<collect, peer>>

ScrapeReturns == scrape_returns /\ UNCHANGED <<collect, peer>>

NextScrape ==
    ScAddJobIds \/ ScrapePending \/ ScrapeOne \/ ScrapeFails \/ ScrapeReturns

SpecScrape == Init /\ [][NextScrape]_vars

----------------------------------------------------------------------------
(* Two managers over one storage directory: the second keeps its own
   job_ids_state and shares the two files; calls never overlap *)

\* JsonStorageManager(storage_dir) for the second manager: the files exist,
\* the state is loaded from the queue file
open_peer ==
    /\ ~peer.open
    /\ LET loaded == load_or_create_job_ids(job_ids_file)
       IN  peer' = [open |-> TRUE, to_scrape |-> loaded.to_scrape,
                    scraped |-> loaded.scraped]
    /\ UNCHANGED <<store, collect, batch>>

\* add_job_ids(job_ids, search_metadata) called on the second manager
peer_add_job_ids(job_ids, search_metadata, order) ==
    /\ peer.open
    /\ IsOrderOf(order, new_ids(job_ids, peer.scraped))
    /\ peer' = [peer EXCEPT
           !.to_scrape = append_new(peer.to_scrape, order, search_metadata)]
    /\ job_ids_file' = save_job_ids(peer'.to_scrape, peer'.scraped)
    /\ UNCHANGED <<to_scrape, scraped, job_info_file, backup_root, clock, lastOp,
                   taken, held, pc, view, collect, batch>>

\* add_job_info(job_info) called on the second manager
peer_add_job_info(job_info) ==
    LET i == first_match(peer.to_scrape, job_info.job_id)
        m == mark_scraped(peer.to_scrape, peer.scraped, job_info.job_id)
    IN  /\ peer.open
        /\ IF i # 0
           THEN /\ peer' = [peer EXCEPT !.to_scrape = m.to_scrape,
                                        !.scraped = m.scraped]
                /\ job_ids_file' = save_job_ids(m.to_scrape, m.scraped)
           ELSE UNCHANGED <<peer, job_ids_file>>
        /\ job_info_file' = Append(job_info_file, job_info)
        /\ UNCHANGED <<to_scrape, scraped, backup_root, clock, lastOp, taken,
                       held, pc, view, collect, batch>>

OpenPeer == open_peer

PeerAddJobIds ==
    \E job_ids \in SeqsUpTo(JobIds, MaxIdsArg), md \in Metas :
        /\ peer.open
        /\ Len(peer.to_scrape) + Cardinality(new_ids(job_ids, peer.scraped))
               <= BkMaxQueue
        /\ \E order \in Orders(new_ids(job_ids, peer.scraped)) :
               peer_add_job_ids(job_ids, md, order)

PeerAddJobInfo ==
    \E id \in JobIds, t \in Titles :
        /\ peer.open
        /\ Len(job_info_file) < BkMaxLog
        /\ peer_add_job_info(JobInfo(id, t))

NextTwo ==
    \/ StAddJobIds
    \/ StAddJobInfo
    \/ OpenPeer
    \/ PeerAddJobIds
    \/ PeerAddJobInfo

SpecTwo == Init /\ [][NextTwo]_vars

----------------------------------------------------------------------------
(* Properties of the queue, checked under Spec *)

HasRecord(log, id) == \E i \in 1..Len(log) : log[i].job_id = id

LastRecord(log, id) ==
    log[CHOOSE i \in 1..Len(log) :
            /\ log[i].job_id = id
            /\ \A j \in 1..Len(log) : log[j].job_id = id => j <= i]

\* C1: partition exclusivity: no identifier is in to_scrape and in scraped at
\* the same time.
C1_PartitionExclusive == PendingIds \cap ScrapedIds = {}

\* C2: no identifier occurs more than once in to_scrape, and none occurs more
\* than once in scraped.
C2_NoDuplicates ==
    \A id \in JobIds : Count(to_scrape, id) <= 1 /\ Count(scraped, id) <= 1

\* C3: no re-queue after completion: when add_job_ids is called with an
\* identifier for which add_job_info was called before (it has a record in the
\* detail log), that identifier is absent from to_scrape afterwards.
C3_NoRequeue ==
    lastOp.op = "add_job_ids" =>
        \A a \in lastOp.job_ids :
            HasRecord(lastOp.pre_log, a) => a \notin PendingIds

\* C4: metadata latest-wins: when add_job_ids is called with metadata M for an
\* identifier that is still pending (and not scraped), get_job_search_metadata
\* returns M for it afterwards and its pending entry carries M.
C4_LatestWins ==
    lastOp.op = "add_job_ids" =>
        \A a \in lastOp.job_ids :
            (a \in IdsOf(lastOp.pre_to_scrape) /\ a \notin IdsOf(lastOp.pre_scraped)) =>
                /\ get_job_search_metadata(to_scrape, scraped, a) = lastOp.search_metadata
                /\ \A i \in 1..Len(to_scrape) :
                       to_scrape[i].job_id = a =>
                           to_scrape[i].search_metadata = lastOp.search_metadata

\* C5: idempotent discovery: in the state add_job_ids(job_ids, M) has just
\* produced, calling add_job_ids(job_ids, M) once more yields the same
\* to_scrape and scraped, whatever order the set is iterated in.
C5_Idempotent ==
    lastOp.op = "add_job_ids" =>
        \A order \in Orders(lastOp.job_ids \ ScrapedIds) :
            append_new(to_scrape, order, lastOp.search_metadata) = to_scrape

\* C9: detail log last-wins read: for an identifier that get_job_info can
\* return at all (it is in scraped), get_job_info returns the last record of
\* the log with that identifier.
C9_LastWins ==
    \A id \in ScrapedIds :
        HasRecord(job_info_file, id) =>
            get_job_info(scraped, job_info_file, id) = LastRecord(job_info_file, id)

\* C10: get_job_info depends only on the detail log: it returns None only if
\* the log holds no record for the identifier.
C10_DetailOnlyLog ==
    \A id \in JobIds :
        get_job_info(scraped, job_info_file, id) = None =>
            ~HasRecord(job_info_file, id)

----------------------------------------------------------------------------
(* Properties of backup and restore *)

\* C6: backup/restore round trip: restoring the path the last backup() returned
\* (max_backups >= 1, no other backup taken since, and none of the other
\* directories taken in the very same second) succeeds and yields the stats,
\* the get_job_info and the get_job_search_metadata results of the state S the
\* backup was taken in. Checked under SpecBackup.
C6_RoundTrip ==
    (/\ lastOp.op = "restore" /\ held # NoBackup /\ lastOp.path = held.path
     /\ \A d \in backup_root :
            d.name # held.path => timestamp_of(d.name) # timestamp_of(held.path)) =>
        /\ lastOp.ok
        /\ get_storage_stats(to_scrape, scraped, job_info_file)
               = get_storage_stats(held.to_scrape, held.scraped, held.job_info)
        /\ \A id \in JobIds :
               /\ get_job_info(scraped, job_info_file, id)
                      = get_job_info(held.scraped, held.job_info, id)
               /\ get_job_search_metadata(to_scrape, scraped, id)
                      = get_job_search_metadata(held.to_scrape, held.scraped, id)

\* C7: retention cap: when backup(max_backups = N) has returned, at most N
\* backup directories exist; and when more than N backups have been taken into
\* the initially empty directory, all with max_backups = N, exactly N exist.
\* Checked under SpecRetention.
C7_RetentionCap ==
    (lastOp.op = "backup" /\ lastOp.ok) =>
        /\ Cardinality(backup_root) <= lastOp.max_backups
        /\ (taken.n > lastOp.max_backups /\ taken.caps = {lastOp.max_backups})
               => Cardinality(backup_root) = lastOp.max_backups

\* more backups than the cap have returned, all with the cap 2, and the last
\* one removed a directory
C7_Witness ==
    /\ lastOp.op = "backup" /\ lastOp.ok
    /\ lastOp.max_backups = 2
    /\ taken.n > 2
    /\ taken.caps = {2}
    /\ lastOp.removed # {}
    /\ Cardinality(backup_root) = 2

\* C8: retention deletes the oldest: when backup() has removed directories,
\* every directory that remains has a full timestamp (date and time of day) not
\* earlier than that of every directory removed. Checked under SpecRetention.
C8_OldestDeleted ==
    (lastOp.op = "backup" /\ lastOp.ok) =>
        \A r \in lastOp.removed, k \in Names(backup_root) :
            NotEarlier(timestamp_of(k), timestamp_of(r))

----------------------------------------------------------------------------
(* Stats, frame conditions and repeated calls, checked under Spec *)

Changes(a, b, c) == [change_to_scrape |-> a, change_scraped |-> b, change_job_info |-> c]

PreStats == get_storage_stats(lastOp.pre_to_scrape, lastOp.pre_scraped, lastOp.pre_log)

\* C11: stats and diff: get_storage_stats reports the sizes of the partitions
\* and of the log, get_scraping_changes is the signed difference to earlier
\* stats; add_job_ids of k distinct ids on an empty store gives stats (k, 0, 0)
\* and changes (k, 0, 0); add_job_info of a pending id gives changes
\* (-1, +1, +1) and stats that differ from the earlier ones by exactly that.
C11_StatsDiff ==
    /\ (/\ lastOp.op = "add_job_ids"
        /\ lastOp.pre_to_scrape = <<>> /\ lastOp.pre_scraped = <<>>
        /\ lastOp.pre_log = <<>>) =>
           /\ get_storage_stats(to_scrape, scraped, job_info_file)
                  = [num_to_scrape |-> Cardinality(lastOp.job_ids),
                     num_scraped |-> 0, num_job_info |-> 0]
           /\ get_scraping_changes(PreStats, to_scrape, scraped, job_info_file)
                  = Changes(Cardinality(lastOp.job_ids), 0, 0)
    /\ (/\ lastOp.op = "add_job_info"
        /\ lastOp.job_info.job_id \in IdsOf(lastOp.pre_to_scrape)) =>
           /\ get_scraping_changes(PreStats, to_scrape, scraped, job_info_file)
                  = Changes(-1, 1, 1)
           /\ Len(to_scrape) = Len(lastOp.pre_to_scrape) - 1
           /\ Len(scraped) = Len(lastOp.pre_scraped) + 1
           /\ Len(job_info_file) = Len(lastOp.pre_log) + 1

\* add_job_info of a pending id in a store that held two pending and one
\* scraped entry
C11_Witness ==
    /\ lastOp.op = "add_job_info"
    /\ lastOp.job_info.job_id \in IdsOf(lastOp.pre_to_scrape)
    /\ Len(lastOp.pre_to_scrape) = 2
    /\ Len(lastOp.pre_scraped) = 1

\* C12: add_job_info for an id that is not in to_scrape appends exactly one
\* record to the log and leaves to_scrape, scraped and the queue file as they
\* were.
C12_NoPendingMatch ==
    (/\ lastOp.op = "add_job_info"
     /\ lastOp.job_info.job_id \notin IdsOf(lastOp.pre_to_scrape)) =>
        /\ job_info_file = Append(lastOp.pre_log, lastOp.job_info)
        /\ to_scrape = lastOp.pre_to_scrape
        /\ scraped = lastOp.pre_scraped
        /\ job_ids_file = save_job_ids(lastOp.pre_to_scrape, lastOp.pre_scraped)

\* add_job_info for an id that is in neither partition, other entries present
C12_Witness ==
    /\ lastOp.op = "add_job_info"
    /\ lastOp.job_info.job_id \notin IdsOf(lastOp.pre_to_scrape)
    /\ lastOp.job_info.job_id \notin IdsOf(lastOp.pre_scraped)
    /\ lastOp.pre_to_scrape # <<>>
    /\ lastOp.pre_scraped # <<>>

\* C13: repeated add_job_info: in the state a call of add_job_info for an id
\* has produced, a second call for the same id leaves to_scrape and scraped as
\* they are.
C13_RepeatNoop ==
    lastOp.op = "add_job_info" =>
        mark_scraped(to_scrape, scraped, lastOp.job_info.job_id)
            = [to_scrape |-> to_scrape, scraped |-> scraped]

\* C15: provenance survives the transition: when add_job_info moves a pending
\* entry, the entry appended to scraped is the one popped (same job_id and
\* search metadata), get_job_search_metadata returns for the id what it
\* returned before the call, and None for an id in neither partition.
C15_Provenance ==
    /\ (/\ lastOp.op = "add_job_info"
        /\ lastOp.job_info.job_id \in IdsOf(lastOp.pre_to_scrape)) =>
           /\ scraped = Append(lastOp.pre_scraped,
                  lastOp.pre_to_scrape[first_match(lastOp.pre_to_scrape,
                                                   lastOp.job_info.job_id)])
           /\ get_job_search_metadata(to_scrape, scraped, lastOp.job_info.job_id)
                  = get_job_search_metadata(lastOp.pre_to_scrape, lastOp.pre_scraped,
                                            lastOp.job_info.job_id)
    /\ \A id \in JobIds \ (PendingIds \cup ScrapedIds) :
           get_job_search_metadata(to_scrape, scraped, id) = None

\* C16: add_job_ids leaves scraped as it was: an id already in scraped keeps
\* the search metadata of its entries when it is discovered again.
C16_ScrapedUntouched ==
    lastOp.op = "add_job_ids" =>
        /\ scraped = lastOp.pre_scraped
        /\ \A a \in lastOp.job_ids :
               {scraped[i].search_metadata :
                    i \in {j \in 1..Len(scraped) : scraped[j].job_id = a}}
               = {lastOp.pre_scraped[i].search_metadata :
                    i \in {j \in 1..Len(lastOp.pre_scraped) :
                               lastOp.pre_scraped[j].job_id = a}}

\* an id of scraped is discovered again with other search metadata
C16_Witness ==
    /\ lastOp.op = "add_job_ids"
    /\ \E i \in 1..Len(lastOp.pre_scraped) :
           /\ lastOp.pre_scraped[i].job_id \in lastOp.job_ids
           /\ lastOp.pre_scraped[i].search_metadata # lastOp.search_metadata

----------------------------------------------------------------------------
(* Properties of the store with backups and restores, checked under SpecStore *)

\* C14: restore_from_backup with a path that names no backup directory fails
\* (ValueError "Backup directory not found") and leaves the queue file, the
\* log and the in-memory queue state as they were.
C14_MissingBackup ==
    (lastOp.op = "restore" /\ lastOp.path \notin Names(backup_root)) =>
        /\ ~lastOp.ok
        /\ job_ids_file = lastOp.pre_file
        /\ job_info_file = lastOp.pre_log
        /\ to_scrape = lastOp.pre_to_scrape
        /\ scraped = lastOp.pre_scraped

\* a restore of a missing path on a store that holds entries, a log and a
\* backup
C14_Witness ==
    /\ lastOp.op = "restore"
    /\ ~lastOp.ok
    /\ lastOp.path = nonexistent_backup
    /\ scraped # <<>>
    /\ job_info_file # <<>>
    /\ backup_root # {}

\* C17: the queue file mirrors memory: after construction and after every
\* add_job_ids, add_job_info, backup and restore_from_backup the queue file is
\* not empty and loads to exactly the to_scrape and scraped lists in memory (a
\* new manager over the directory sees the same entries).
C17_FileMirrorsMemory ==
    /\ job_ids_file # <<>>
    /\ load_or_create_job_ids(job_ids_file)
           = [to_scrape |-> to_scrape, scraped |-> scraped]

\* a restore has brought back a state with a pending and a scraped entry
C17_Witness ==
    /\ lastOp.op = "restore"
    /\ lastOp.ok
    /\ to_scrape # <<>>
    /\ scraped # <<>>

----------------------------------------------------------------------------
(* Checked under SpecCrash *)

\* the queue file written by the call before the one the process was in
PreviousFile ==
    IF lastOp.op = "init"
    THEN save_job_ids(JobIdsState.to_scrape, JobIdsState.scraped)
    ELSE save_job_ids(lastOp.pre_to_scrape, lastOp.pre_scraped)

\* C18: crash-safe persist: wherever the process terminates, the queue file
\* on disk is the complete previous state or the complete new state, never an
\* empty file.
C18_CrashSafe ==
    pc = "down" =>
        /\ job_ids_file # <<>>
        /\ \/ job_ids_file = save_job_ids(to_scrape, scraped)
           \/ job_ids_file = PreviousFile

----------------------------------------------------------------------------
(* Checked under SpecNoRestore *)

\* C19: entries are never lost: no step of add_job_ids, add_job_info or
\* backup removes an identifier from the union of to_scrape and scraped,
\* and none removes an identifier from scraped.
C19_NeverLost ==
    [][/\ (PendingIds \cup ScrapedIds) \subseteq (PendingIds \cup ScrapedIds)'
       /\ ScrapedIds \subseteq ScrapedIds']_vars

\* after a backup of a store with nothing scraped, an entry has been moved to
\* scraped and another identifier has been queued
C19_Witness ==
    /\ \E d \in backup_root : d.info.num_jobs_scraped = 0 /\ d.info.num_jobs_to_scrape > 0
    /\ ScrapedIds # {}
    /\ PendingIds # {}
    /\ PendingIds \cup ScrapedIds = JobIds

----------------------------------------------------------------------------
(* Checked under SpecReads *)

\* C20: read-only snapshots: the list returned by get_jobs_to_scrape or
\* get_scraped_jobs holds, after any later add_job_ids or add_job_info, what
\* it held when it was returned.
C20_Snapshot == list_now(view) = view.returned

----------------------------------------------------------------------------
(* Order of the two writes of add_job_info, checked under SpecCrash *)

\* C23: detail before transition: at every point of every execution, a
\* termination between two steps of add_job_info included, every identifier
\* in the scraped list of the queue file has at least one record in the log.
C23_DetailBeforeMove ==
    \A id \in IdsOf(load_or_create_job_ids(job_ids_file).scraped) :
        HasRecord(job_info_file, id)

----------------------------------------------------------------------------
(* Checked under Spec *)

\* C24: pending means not yet scraped: after any sequence of add_job_ids and
\* add_job_info calls, in any order, no identifier of to_scrape has a record
\* in the log.
C24_PendingNotScraped ==
    \A id \in PendingIds : ~HasRecord(job_info_file, id)

----------------------------------------------------------------------------
(* Checked under SpecRetention *)

\* C25: the new backup survives retention: when backup() with max_backups >= 1
\* returns, the directory it returns exists and holds the copy of the queue
\* file, the copy of the log and backup_info.json, whatever directories were
\* there and in whatever order they are listed.
C25_NewBackupSurvives ==
    (lastOp.op = "backup" /\ lastOp.ok /\ lastOp.max_backups >= 1) =>
        \E d \in backup_root :
            /\ d.name = lastOp.path
            /\ d.files = BackupFiles
            /\ d.job_ids = job_ids_file
            /\ d.job_info = job_info_file
            /\ d.info.num_jobs_to_scrape = Len(to_scrape)
            /\ d.info.num_jobs_scraped = Len(scraped)

\* C28: backup names do not collide: a backup() call made in a second in which
\* a backup was already taken into the same directory returns as well, with a
\* directory of its own.
C28_NoCollision ==
    (lastOp.op = "backup" /\ \E k \in Names(backup_root) :
                                 timestamp_of(k) = timestamp_of(lastOp.path)) =>
        /\ lastOp.ok
        /\ lastOp.path \in Names(backup_root) \cup lastOp.removed


----------------------------------------------------------------------------
(* Checked under SpecPartial *)

\* C26: restore is all-or-nothing: when restore_from_backup fails on a
\* directory that exists and lacks one of the two copies, neither the queue
\* file nor the log is changed and the lists in memory are what the queue
\* file loads to.
C26_AllOrNothing ==
    (/\ lastOp.op = "restore"
     /\ ~lastOp.ok
     /\ lastOp.path \in Names(backup_root)) =>
        /\ job_ids_file = lastOp.pre_file
        /\ job_info_file = lastOp.pre_log
        /\ load_or_create_job_ids(job_ids_file)
               = [to_scrape |-> to_scrape, scraped |-> scraped]

----------------------------------------------------------------------------
(* Checked under SpecCollect *)

\* C21: identifier deduplication: after every observation of
\* _collect_job_ids, on any page, job_ids is the set of the distinct
\* identifiers observed so far and the number reported as new is the number of
\* identifiers of the observation that had not been observed before; the set
\* returned is the union of all observations.
C21_Dedup ==
    collect.at \in {"scroll", "done"} =>
        /\ collect.job_ids = collect.seen
        /\ collect.observations > 0 =>
               collect.new_count = Cardinality(collect.last \ collect.before)

\* on a second page an observation repeats an identifier seen before and
\* brings a new one
C21_Witness ==
    /\ collect.at = "scroll"
    /\ collect.page_num > 1
    /\ collect.scroll_count > 0
    /\ collect.last \cap collect.before # {}
    /\ collect.last \ collect.before # {}

\* C29: page limit: for every total page count and every max_pages that is
\* not None, zero included, _collect_job_ids processes at most max_pages pages
\* and at most total_pages pages, and when it returns it has made num_scrolls
\* observations on each page it processed.
C29_PageLimit ==
    collect.at \in {"scroll", "done"} =>
        /\ collect.max_pages # <<>> => collect.pages <= collect.max_pages[1]
        /\ collect.pages <= collect.total_pages
        /\ collect.at = "done" =>
               collect.observations = collect.pages * collect.num_scrolls

----------------------------------------------------------------------------
(* Checked under SpecScrape *)

\* the job ids of a list of entries, in order
JobIdsOf(entries) == [i \in 1..Len(entries) |-> entries[i].job_id]

\* the entries the loop was given have distinct identifiers
DistinctSelected == Cardinality(IdsOf(batch.selected)) = Len(batch.selected)

\* C22: pending jobs are all scraped: when scrape_pending_job_info without a
\* limit returns and every scrape succeeded, every entry that was pending at
\* the call (their identifiers distinct) has been attempted exactly once, none
\* of their identifiers is in to_scrape and all of them are in scraped.
C22_AllScraped ==
    (/\ batch.at = "done" /\ batch.limit = <<>> /\ batch.failed = <<>>
     /\ DistinctSelected) =>
        /\ batch.attempted = JobIdsOf(batch.selected)
        /\ \A id \in IdsOf(batch.selected) :
               id \notin PendingIds /\ id \in ScrapedIds

\* C27: one bad job does not abort the batch: when scrape_pending_job_info
\* returns after the scrape of some selected job failed (the selected jobs
\* having distinct identifiers), every selected job has been attempted, the identifiers that failed are still in to_scrape, and
\* the records appended to the log are exactly the jobs returned, which are
\* the ones that succeeded.
C27_BadJobIsolated ==
    (batch.at = "done" /\ batch.failed # <<>> /\ DistinctSelected) =>
        /\ batch.attempted = JobIdsOf(batch.selected)
        /\ \A id \in Range(batch.failed) : id \in PendingIds
        /\ SubSeq(job_info_file, batch.log_at_call + 1, Len(job_info_file))
               = batch.processed_jobs
        /\ Len(batch.processed_jobs) + Len(batch.failed) = Len(batch.attempted)

----------------------------------------------------------------------------
(* Checked under SpecTwo *)

\* the identifiers the queue file holds, pending or scraped
FileIds ==
    IdsOf(load_or_create_job_ids(job_ids_file).to_scrape)
        \cup IdsOf(load_or_create_job_ids(job_ids_file).scraped)

\* C30: no lost update between two managers: with two managers open on one
\* storage directory and calls that never overlap, every identifier in the
\* queue file is still in it after the next call of either manager.
C30_NoLostUpdate == [][FileIds \subseteq FileIds']_vars

====
